---- MODULE Spec2Model ----
(***************************************************************************)
(* A model of RTC::Transport (worker/src/RTC/Transport.cpp): the maps of   *)
(* Producers and Consumers a transport owns, the SSRC table of its         *)
(* RtpListener, the channel requests it handles, Close(), the destructor   *)
(* and the RTCP timer.  Every handler runs to completion on the single     *)
(* libuv loop thread, so each handler is one action.                       *)
(***************************************************************************)
EXTENDS Integers, Sequences, FiniteSets, TLC

(***************************************************************************)
(* Bounds of the model.                                                    *)
(***************************************************************************)
\* Producer objects the router ever hands to HandleProducer.
MaxProducers == 2
\* Consumer objects the router ever hands to HandleConsumer.
MaxConsumers == 2

(***************************************************************************)
(* The values the inputs are drawn from.                                   *)
(***************************************************************************)
ProducerIds == {"p1", "p2"}
ConsumerIds == {"c1", "c2"}
Ssrcs == {100, 200}
\* RTP header extension ids: 0 is "absent".
ExtIds == {0, 1, 2}
Kinds == {"audio", "video"}
\* The high 32-bit word of data.bitrate (a JSON uint64).
BitrateHighs == {0, 1}

(***************************************************************************)
(* JSON values of a Channel::Request.  An unsigned number is a uint64,     *)
(* held as hi * 2^32 + lo with lo < 2^32 (TLC's integers are 32 bits       *)
(* wide, so the two words are kept apart).                                 *)
(***************************************************************************)
Json(t, s, hi, lo) == [t |-> t, s |-> s, hi |-> hi, lo |-> lo]
JsonMissing == Json("missing", "", 0, 0)
JsonString(s) == Json("string", s, 0, 0)
JsonUnsigned(hi, lo) == Json("unsigned", "", hi, lo)
\* A negative integer: is_number_unsigned() is false for it.
JsonNegative == Json("integer", "", 0, 0)

\* The low words the bitrate requests carry.
BitrateLows == {500, 20000}

JsonBitrates ==
    {JsonMissing, JsonString("fast"), JsonNegative}
        \cup {JsonUnsigned(hi, lo) : hi \in BitrateHighs, lo \in BitrateLows}

\* The values internal.producerId / internal.consumerId take: missing, not a
\* string, the ids of the model and one id no entity ever has.
JsonIds(ids) ==
    {JsonMissing, JsonUnsigned(0, 7)} \cup {JsonString(s) : s \in ids \cup {"zz"}}

MethodIds ==
    {"TRANSPORT_SET_MAX_INCOMING_BITRATE", "PRODUCER_CLOSE", "CONSUMER_CLOSE",
     "TRANSPORT_DUMP"}

Request(m, bitrate, producerId, consumerId) ==
    [methodId |-> m, bitrate |-> bitrate, producerId |-> producerId,
     consumerId |-> consumerId]

NoRequest == Request("", JsonMissing, JsonMissing, JsonMissing)

Requests ==
    {Request("TRANSPORT_SET_MAX_INCOMING_BITRATE", b, JsonMissing, JsonMissing) :
        b \in JsonBitrates}
    \cup {Request("PRODUCER_CLOSE", JsonMissing, i, JsonMissing) :
            i \in JsonIds(ProducerIds)}
    \cup {Request("CONSUMER_CLOSE", JsonMissing, JsonMissing, i) :
            i \in JsonIds(ConsumerIds)}
    \cup {Request("TRANSPORT_DUMP", JsonMissing, JsonMissing, JsonMissing)}

(***************************************************************************)
(* std::unordered_map<std::string, T*> as a function from the keys held.   *)
(***************************************************************************)
EmptyMap == [x \in {} |-> 0]
MapInsert(m, key, val) ==
    [x \in DOMAIN m \cup {key} |-> IF x = key THEN val ELSE m[x]]
MapErase(m, key) == [x \in DOMAIN m \ {key} |-> m[x]]
MapValues(m) == {m[x] : x \in DOMAIN m}

\* The orders in which a range-for may visit the keys of an unordered_map.
IterationOrders(m) ==
    {o \in [1..Cardinality(DOMAIN m) -> DOMAIN m] :
        \A i, j \in DOMAIN o : i # j => o[i] # o[j]}

(***************************************************************************)
(* The state.                                                              *)
(***************************************************************************)
VARIABLES
    mapProducers,            \* producer id -> Producer object
    mapConsumers,            \* consumer id -> Consumer object
    rtpListener,             \* the ssrcTable: a set of <<ssrc, Producer object>>
    rtpHeaderExtensionIds,   \* [absSendTime, mid, rid]
    maxIncomingBitrate,      \* uint32
    availableOutgoingBitrate, \* uint32, the last REMB estimate
    rtcpTimer,               \* [active, interval, at]
    phase,                   \* "alive", "closed" (after Close()), "destroyed"
    producers,               \* the Producer objects registered so far
    consumers,               \* the Consumer objects registered so far
    turn                     \* what the last handler did (its event turn)

transport ==
    <<mapProducers, mapConsumers, rtpListener, rtpHeaderExtensionIds,
      maxIncomingBitrate, availableOutgoingBitrate>>
vars ==
    <<mapProducers, mapConsumers, rtpListener, rtpHeaderExtensionIds,
      maxIncomingBitrate, availableOutgoingBitrate, rtcpTimer, phase,
      producers, consumers, turn>>

(***************************************************************************)
(* An RTCP packet as Transport::ReceiveRtcpPacket reads it: its type, the  *)
(* feedback's message type, application and media SSRC, the REMB bitrate   *)
(* and the SSRCs of its reports (or SDES chunks) in wire order.            *)
(***************************************************************************)
RtcpPacket(type, messageType, application, mediaSsrc, bitrate, reports) ==
    [type |-> type, messageType |-> messageType, application |-> application,
     mediaSsrc |-> mediaSsrc, bitrate |-> bitrate, reports |-> reports]

NoPacket == RtcpPacket("", "", "", 0, 0, <<>>)

\* What consumer->GetRtcp(packet, now) or producer->GetRtcp(packet, now)
\* appends to the compound: sender reports, receiver reports, and bytes.
Rtcp(senderReports, receiverReports, size) ==
    [senderReports |-> senderReports, receiverReports |-> receiverReports,
     size |-> size]
NoRtcp == Rtcp(0, 0, 0)

\* What the entities of the maps report at one timer fire, and the orders
\* in which the loops of SendRtcp visit them.
Report(corder, crtcp, porder, prtcp) ==
    [corder |-> corder, consumers |-> crtcp, porder |-> porder,
     producers |-> prtcp]
NoReport == Report(<<>>, <<>>, <<>>, <<>>)

\* A call of ReceiveRtcpPacket on a consumer or producer: `arg` is the
\* position of the report handed over, or the feedback's message type.
Delivery(e, kind, obj, arg) == [e |-> e, kind |-> kind, obj |-> obj, arg |-> arg]

(***************************************************************************)
(* The event turn: the calls the handler made on the router listener and   *)
(* on its entities, in order, and how it answered its request.             *)
(***************************************************************************)
Event(e, kind, obj) == [e |-> e, kind |-> kind, obj |-> obj]

NoTurn ==
    [op |-> "constructor", req |-> NoRequest, events |-> <<>>,
     response |-> "none", threw |-> FALSE, obj |-> 0, id |-> "",
     ssrcs |-> {}, ext |-> [absSendTime |-> 0, mid |-> 0, rid |-> 0],
     preMapProducers |-> EmptyMap, preRtpListener |-> {},
     kind |-> "", connected |-> FALSE, rates |-> <<>>, k |-> 0,
     packet |-> NoPacket, deliveries |-> <<>>,
     report |-> NoReport, sent |-> <<>>, aborted |-> FALSE]


\* How often the turn's events call `e` on (or for) the entity `obj`.
Count(events, e, kind, obj) ==
    Cardinality({i \in DOMAIN events : events[i] = Event(e, kind, obj)})

\* The entity objects after the events of a turn: each callback and each
\* delete is counted on the object it names.
Account(objs, kind, closedEvent, events) ==
    [o \in DOMAIN objs |->
        [objs[o] EXCEPT
            !.closed = @ + Count(events, closedEvent, kind, o),
            !.deleted = @ + Count(events, "delete", kind, o)]]

\* An object that was deleted has no fields any more: only the counts of
\* what happened to it are kept.
Freed(objs) ==
    [o \in DOMAIN objs |->
        IF objs[o].deleted = 0 THEN objs[o]
        ELSE [objs[o] EXCEPT !.id = "", !.ssrcs = {}]]

\* The same for a Consumer, which has a started state and RTP parameters.
FreedConsumers(objs) ==
    [o \in DOMAIN objs |->
        IF objs[o].deleted = 0 THEN objs[o]
        ELSE [Freed(objs)[o] EXCEPT !.started = FALSE, !.encodings = <<>>]]

(***************************************************************************)
(* RtpListener (RTC/RtpListener.cpp is not among the sources): the table   *)
(* ssrc -> Producer.  AddProducer throws, leaving the table as it was,     *)
(* when one of the producer's SSRCs is already in the table.               *)
(***************************************************************************)
RtpListenerHasSsrc(table, ssrc) == \E e \in table : e[1] = ssrc

RtpListenerAddProducerUnchecked(table, obj, ssrcs) ==
    [threw |-> FALSE, table |-> table \cup {<<s, obj>> : s \in ssrcs}]

RtpListenerAddProducer(table, obj, ssrcs) ==
    IF \E s \in ssrcs : RtpListenerHasSsrc(table, s)
    THEN [threw |-> TRUE, table |-> table]
    ELSE [threw |-> FALSE, table |-> table \cup {<<s, obj>> : s \in ssrcs}]

RtpListenerRemoveProducer(table, obj) == {e \in table : e[2] # obj}

RtpListenerSsrcs(table) == {e[1] : e \in table}

(***************************************************************************)
(* Transport::HandleProducer.                                              *)
(***************************************************************************)
HeaderExtensionIds(a, m, r) == [absSendTime |-> a, mid |-> m, rid |-> r]

\* A faulty variant: the producer's ids are copied whether or not they are set.
MergeHeaderExtensionIdsUnconditional(cur, ext) == ext

\* Lines 223-232: a field of the producer that is not 0 overwrites the
\* transport's.
MergeHeaderExtensionIds(cur, ext) ==
    [absSendTime |-> IF ext.absSendTime # 0 THEN ext.absSendTime ELSE cur.absSendTime,
     mid |-> IF ext.mid # 0 THEN ext.mid ELSE cur.mid,
     rid |-> IF ext.rid # 0 THEN ext.rid ELSE cur.rid]

\* A faulty variant: the producer is put into the map before the RtpListener is
\* asked, so that a throw leaves it there.
HandleProducerMapFirst(table, map, cur, obj, p) ==
    LET added == RtpListenerAddProducer(table, obj, p.ssrcs)
    IN  [threw |-> added.threw,
         rtpListener |-> added.table,
         mapProducers |-> MapInsert(map, p.id, obj),
         rtpHeaderExtensionIds |->
            IF added.threw THEN cur ELSE MergeHeaderExtensionIds(cur, p.ext)]

\* What HandleProducer(producer) leaves: AddProducer first (its exception
\* leaves the function), then the map, then the header extension ids.
HandleProducerResult(table, map, cur, obj, p) ==
    LET added == RtpListenerAddProducer(table, obj, p.ssrcs)
    IN  IF added.threw
        THEN [threw |-> TRUE, rtpListener |-> table, mapProducers |-> map,
              rtpHeaderExtensionIds |-> cur]
        ELSE [threw |-> FALSE,
              rtpListener |-> added.table,
              mapProducers |-> MapInsert(map, p.id, obj),
              rtpHeaderExtensionIds |-> MergeHeaderExtensionIds(cur, p.ext)]

\* The producers the router may hand over: an id, the primary SSRCs of the
\* encodings and the header extension ids.
NewProducers(ssrcSets, exts) ==
    {[id |-> i, ssrcs |-> s, ext |-> e] :
        i \in ProducerIds, s \in ssrcSets, e \in exts}

SsrcSets == (SUBSET Ssrcs) \ {{}}
AllHeaderExtensionIds ==
    {HeaderExtensionIds(a, m, r) : a \in ExtIds, m \in ExtIds, r \in ExtIds}

HandleProducer(p) ==
    /\ phase = "alive"
    /\ Len(producers) < MaxProducers
    /\ LET obj == Len(producers) + 1
           res == HandleProducerResult(rtpListener, mapProducers,
                                       rtpHeaderExtensionIds, obj, p)
       IN  /\ rtpListener' = res.rtpListener
           /\ mapProducers' = res.mapProducers
           /\ rtpHeaderExtensionIds' = res.rtpHeaderExtensionIds
           /\ producers' =
                IF res.threw THEN producers
                ELSE Append(producers,
                            [id |-> p.id, ssrcs |-> p.ssrcs, closed |-> 0,
                             deleted |-> 0])
           /\ turn' = [NoTurn EXCEPT
                           !.op = "HandleProducer", !.threw = res.threw,
                           !.obj = obj, !.id = p.id, !.ssrcs = p.ssrcs,
                           !.ext = p.ext,
                           !.preMapProducers = mapProducers,
                           !.preRtpListener = rtpListener]
    /\ UNCHANGED <<mapConsumers, maxIncomingBitrate, availableOutgoingBitrate,
                   rtcpTimer, phase, consumers>>

(***************************************************************************)
(* Transport::HandleConsumer.  IsConnected() is the transport variant's.   *)
(***************************************************************************)
\* Lines 249-260: the key frame is asked of the consumer itself.
HandleConsumerEvents(connected, obj) ==
    IF connected THEN <<Event("RequestKeyFrame", "consumer", obj)>> ELSE <<>>

HandleConsumer(id, kind, connected) ==
    /\ phase = "alive"
    /\ Len(consumers) < MaxConsumers
    /\ LET obj == Len(consumers) + 1
       IN  /\ mapConsumers' = MapInsert(mapConsumers, id, obj)
           /\ consumers' =
                Append(consumers,
                       [id |-> id, ssrcs |-> {}, closed |-> 0, deleted |-> 0,
                        started |-> FALSE, encodings |-> <<>>])
           /\ turn' = [NoTurn EXCEPT
                           !.op = "HandleConsumer", !.obj = obj, !.id = id,
                           !.kind = kind, !.connected = connected,
                           !.events = HandleConsumerEvents(connected, obj)]
    /\ UNCHANGED <<mapProducers, rtpListener, rtpHeaderExtensionIds,
                   maxIncomingBitrate, availableOutgoingBitrate, rtcpTimer,
                   phase, producers>>

(***************************************************************************)
(* HandleRequest.                                                          *)
(***************************************************************************)
\* request->Accept() and request->Reject(reason), as calls of the turn.
Accept == Event("Accept", "request", 0)
Reject == Event("Reject", "request", 0)

MinBitrate == 10000

\* get<uint32_t>() of a JSON unsigned number: the uint64 cast to uint32, its
\* low word.
GetUint32(json) == json.lo

\* A faulty variant: the floor is stored before the field is validated.
SetMaxIncomingBitrateEager(req, cur) ==
    IF req.bitrate.t # "unsigned"
    THEN [calls |-> <<Reject>>, maxIncomingBitrate |-> MinBitrate]
    ELSE [calls |-> <<Accept>>,
          maxIncomingBitrate |->
            IF GetUint32(req.bitrate) < MinBitrate THEN MinBitrate
            ELSE GetUint32(req.bitrate)]

\* case TRANSPORT_SET_MAX_INCOMING_BITRATE.
SetMaxIncomingBitrate(req, cur) ==
    IF req.bitrate.t # "unsigned"
    THEN [calls |-> <<Reject>>, maxIncomingBitrate |-> cur]
    ELSE LET bitrate == GetUint32(req.bitrate)
         IN  [calls |-> <<Accept>>,
              maxIncomingBitrate |->
                IF bitrate < MinBitrate THEN MinBitrate ELSE bitrate]

\* Transport::GetProducerFromRequest / GetConsumerFromRequest: the entity in
\* the map under the request's internal id, or a MediaSoupError.
GetFromRequest(json, map) ==
    IF json.t # "string" THEN [threw |-> TRUE, obj |-> 0]
    ELSE IF json.s \notin DOMAIN map THEN [threw |-> TRUE, obj |-> 0]
    ELSE [threw |-> FALSE, obj |-> map[json.s]]

GetProducerFromRequest(req, map) == GetFromRequest(req.producerId, map)
GetConsumerFromRequest(req, map) == GetFromRequest(req.consumerId, map)

\* A faulty variant: the producer is deleted before the listener hears of it.
ProducerCloseEventsDeleteFirst(obj) ==
    <<Event("delete", "producer", obj),
      Event("OnTransportProducerClosed", "producer", obj)>>

\* case PRODUCER_CLOSE, lines 152-156: notify the listener, then delete.
ProducerCloseEvents(obj) ==
    <<Event("OnTransportProducerClosed", "producer", obj),
      Event("delete", "producer", obj)>>

\* case CONSUMER_CLOSE, lines 183-187.
ConsumerCloseEvents(obj) ==
    <<Event("OnTransportConsumerClosed", "consumer", obj),
      Event("delete", "consumer", obj)>>

\* The answer a request has after the calls of its turn: that of the last
\* Accept() or Reject(), "none" without any.
Response(events) ==
    LET answers == SelectSeq(events, LAMBDA ev : ev.kind = "request")
    IN  IF answers = <<>> THEN "none"
        ELSE IF answers[Len(answers)] = Accept THEN "accept" ELSE "reject"

\* A faulty variant: the request is accepted before the producer is closed.
ProducerCloseCallsAcceptFirst(obj) ==
    <<Accept, Event("erase", "producer", obj),
      Event("RemoveProducer", "producer", obj)>> \o ProducerCloseEvents(obj)

\* case PRODUCER_CLOSE, lines 146-160, once the producer was found.
ProducerCloseCalls(obj) ==
    <<Event("erase", "producer", obj), Event("RemoveProducer", "producer", obj)>>
        \o ProducerCloseEvents(obj) \o <<Accept>>

\* case CONSUMER_CLOSE, lines 180-191, once the consumer was found.
ConsumerCloseCalls(obj) ==
    <<Event("erase", "consumer", obj)>> \o ConsumerCloseEvents(obj)
        \o <<Accept>>

RequestTurn(req, events) ==
    [NoTurn EXCEPT !.op = "HandleRequest", !.req = req,
                   !.response = Response(events), !.events = events]

HandleRequest(req) ==
    /\ phase = "alive"
    /\ UNCHANGED <<rtpHeaderExtensionIds, availableOutgoingBitrate, rtcpTimer,
                   phase>>
    /\ \/ /\ req.methodId = "TRANSPORT_SET_MAX_INCOMING_BITRATE"
          /\ LET res == SetMaxIncomingBitrate(req, maxIncomingBitrate)
             IN  /\ maxIncomingBitrate' = res.maxIncomingBitrate
                 /\ turn' = RequestTurn(req, res.calls)
          /\ UNCHANGED <<mapProducers, mapConsumers, rtpListener, producers,
                         consumers>>
       \/ /\ req.methodId = "PRODUCER_CLOSE"
          /\ LET got == GetProducerFromRequest(req, mapProducers)
             IN  IF got.threw
                 THEN /\ turn' = RequestTurn(req, <<Reject>>)
                      /\ UNCHANGED <<mapProducers, rtpListener, producers>>
                 ELSE LET events == ProducerCloseCalls(got.obj)
                      IN  /\ mapProducers' =
                                MapErase(mapProducers, producers[got.obj].id)
                          /\ rtpListener' =
                                RtpListenerRemoveProducer(rtpListener, got.obj)
                          /\ producers' =
                                Freed(Account(producers, "producer",
                                        "OnTransportProducerClosed", events))
                          /\ turn' = RequestTurn(req, events)
          /\ UNCHANGED <<mapConsumers, maxIncomingBitrate, consumers>>
       \/ /\ req.methodId = "CONSUMER_CLOSE"
          /\ LET got == GetConsumerFromRequest(req, mapConsumers)
             IN  IF got.threw
                 THEN /\ turn' = RequestTurn(req, <<Reject>>)
                      /\ UNCHANGED <<mapConsumers, consumers>>
                 ELSE LET events == ConsumerCloseCalls(got.obj)
                      IN  /\ mapConsumers' =
                                MapErase(mapConsumers, consumers[got.obj].id)
                          /\ consumers' =
                                FreedConsumers(Account(consumers, "consumer",
                                        "OnTransportConsumerClosed", events))
                          /\ turn' = RequestTurn(req, events)
          /\ UNCHANGED <<mapProducers, rtpListener, maxIncomingBitrate,
                         producers>>
       \/ /\ req.methodId \notin
                {"TRANSPORT_SET_MAX_INCOMING_BITRATE", "PRODUCER_CLOSE",
                 "CONSUMER_CLOSE"}
          /\ turn' = RequestTurn(req, <<Reject>>)
          /\ UNCHANGED <<mapProducers, mapConsumers, rtpListener,
                         maxIncomingBitrate, producers, consumers>>

(***************************************************************************)
(* Transport::SetNewProducerIdFromRequest / SetNewConsumerIdFromRequest:   *)
(* const, they throw or assign the id the caller will give the new entity. *)
(***************************************************************************)
\* A faulty variant: the id is not looked up in the map.
SetNewIdFromRequestNoLookup(json, map) ==
    IF json.t # "string" THEN [threw |-> TRUE, id |-> ""]
    ELSE [threw |-> FALSE, id |-> json.s]

SetNewIdFromRequest(json, map) ==
    IF json.t # "string" THEN [threw |-> TRUE, id |-> ""]
    ELSE IF json.s \in DOMAIN map THEN [threw |-> TRUE, id |-> ""]
    ELSE [threw |-> FALSE, id |-> json.s]

SetNewProducerIdFromRequest(json) ==
    /\ phase = "alive"
    /\ LET res == SetNewIdFromRequest(json, mapProducers)
       IN  turn' = [NoTurn EXCEPT
                        !.op = "SetNewProducerIdFromRequest",
                        !.req = Request("TRANSPORT_PRODUCE", JsonMissing, json,
                                        JsonMissing),
                        !.threw = res.threw, !.id = res.id]
    /\ UNCHANGED <<mapProducers, mapConsumers, rtpListener,
                   rtpHeaderExtensionIds, maxIncomingBitrate,
                   availableOutgoingBitrate, rtcpTimer, phase, producers,
                   consumers>>

SetNewConsumerIdFromRequest(json) ==
    /\ phase = "alive"
    /\ LET res == SetNewIdFromRequest(json, mapConsumers)
       IN  turn' = [NoTurn EXCEPT
                        !.op = "SetNewConsumerIdFromRequest",
                        !.req = Request("TRANSPORT_CONSUME", JsonMissing,
                                        JsonMissing, json),
                        !.threw = res.threw, !.id = res.id]
    /\ UNCHANGED <<mapProducers, mapConsumers, rtpListener,
                   rtpHeaderExtensionIds, maxIncomingBitrate,
                   availableOutgoingBitrate, rtcpTimer, phase, producers,
                   consumers>>

(***************************************************************************)
(* Transport::Close and Transport::~Transport.                             *)
(***************************************************************************)
\* The objects a range-for over the map visits, in the order `order`.
Visited(map, order) == [i \in DOMAIN order |-> map[order[i]]]

\* Lines 70-78: per producer, notify the listener and delete.
CloseProducersEvents(objs) ==
    [i \in 1..(2 * Len(objs)) |->
        IF i % 2 = 1
        THEN Event("OnTransportProducerClosed", "producer", objs[(i + 1) \div 2])
        ELSE Event("delete", "producer", objs[i \div 2])]

\* Lines 82-90: per consumer, notify the listener and delete.
CloseConsumersEvents(objs) ==
    [i \in 1..(2 * Len(objs)) |->
        IF i % 2 = 1
        THEN Event("OnTransportConsumerClosed", "consumer", objs[(i + 1) \div 2])
        ELSE Event("delete", "consumer", objs[i \div 2])]

Close ==
    /\ phase = "alive"
    /\ \E po \in IterationOrders(mapProducers), co \in IterationOrders(mapConsumers) :
        LET events == CloseProducersEvents(Visited(mapProducers, po))
                        \o CloseConsumersEvents(Visited(mapConsumers, co))
        IN  /\ producers' = Freed(Account(producers, "producer",
                                    "OnTransportProducerClosed", events))
            /\ consumers' = FreedConsumers(Account(consumers, "consumer",
                                    "OnTransportConsumerClosed", events))
            /\ turn' = [NoTurn EXCEPT !.op = "Close", !.events = events]
    /\ mapProducers' = EmptyMap
    /\ mapConsumers' = EmptyMap
    /\ rtcpTimer' = [rtcpTimer EXCEPT !.active = FALSE]
    /\ phase' = "closed"
    /\ UNCHANGED <<rtpListener, rtpHeaderExtensionIds, maxIncomingBitrate,
                   availableOutgoingBitrate>>

\* Lines 37-52: everything still in the maps is deleted, silently.
DestructorEvents(pobjs, cobjs) ==
    [i \in DOMAIN pobjs |-> Event("delete", "producer", pobjs[i])]
        \o [i \in DOMAIN cobjs |-> Event("delete", "consumer", cobjs[i])]

Destructor ==
    /\ phase \in {"alive", "closed"}
    /\ \E po \in IterationOrders(mapProducers), co \in IterationOrders(mapConsumers) :
        LET events == DestructorEvents(Visited(mapProducers, po),
                                       Visited(mapConsumers, co))
        IN  /\ producers' = Freed(Account(producers, "producer",
                                    "OnTransportProducerClosed", events))
            /\ consumers' = FreedConsumers(Account(consumers, "consumer",
                                    "OnTransportConsumerClosed", events))
            /\ turn' = [NoTurn EXCEPT !.op = "~Transport", !.events = events]
    /\ mapProducers' = EmptyMap
    /\ mapConsumers' = EmptyMap
    /\ rtcpTimer' = [rtcpTimer EXCEPT !.active = FALSE]
    /\ phase' = "destroyed"
    /\ UNCHANGED <<rtpListener, rtpHeaderExtensionIds, maxIncomingBitrate,
                   availableOutgoingBitrate>>

(***************************************************************************)
(* The started state and the RTP parameters of a Consumer, which           *)
(* GetStartedConsumer reads through consumer->IsStarted() and              *)
(* consumer->GetParameters().  They are the Consumer's own and change      *)
(* outside the transport.                                                  *)
(***************************************************************************)
Encoding(ssrc, hasRtx, rtx, hasFec, fec) ==
    [ssrc |-> ssrc, hasRtx |-> hasRtx, rtx |-> [ssrc |-> rtx],
     hasFec |-> hasFec, fec |-> [ssrc |-> fec]]

\* The encodings a consumer may have: one stream whose RTX and FEC are
\* absent (their fields hold SSRCs all the same), one with RTX and FEC, and
\* two plain streams.
ConsumerEncodings ==
    {<<Encoding(200, FALSE, 300, FALSE, 400)>>,
     <<Encoding(200, TRUE, 300, TRUE, 400)>>,
     <<Encoding(400, FALSE, 0, FALSE, 0), Encoding(300, FALSE, 0, FALSE, 0)>>}

ConsumerStateChanged(o, started, encodings) ==
    /\ phase = "alive"
    /\ o \in MapValues(mapConsumers)
    /\ consumers' = [consumers EXCEPT ![o].started = started,
                                      ![o].encodings = encodings]
    /\ turn' = [NoTurn EXCEPT !.op = "Consumer", !.obj = o]
    /\ UNCHANGED <<mapProducers, mapConsumers, rtpListener,
                   rtpHeaderExtensionIds, maxIncomingBitrate,
                   availableOutgoingBitrate, rtcpTimer, phase, producers>>

(***************************************************************************)
(* Transport::GetStartedConsumer and Transport::ReceiveRtcpPacket.         *)
(***************************************************************************)
\* Lines 626-634: one of the encodings has the SSRC as its own, as that of
\* its RTX or as that of its FEC.
EncodingsHaveSsrc(encodings, ssrc) ==
    \E i \in DOMAIN encodings :
        \/ encodings[i].ssrc = ssrc
        \/ encodings[i].hasRtx /\ encodings[i].rtx.ssrc = ssrc
        \/ encodings[i].hasFec /\ encodings[i].fec.ssrc = ssrc

\* A faulty variant: the started state is not looked at.
GetStartedConsumerAnyState(ssrc, order, map, objs) ==
    LET hits == {i \in DOMAIN order :
                    EncodingsHaveSsrc(objs[map[order[i]]].encodings, ssrc)}
    IN  IF hits = {} THEN 0
        ELSE map[order[CHOOSE i \in hits : \A j \in hits : i <= j]]

\* The first consumer, in the order the map is visited, that is started and
\* has the SSRC; 0 is nullptr.
GetStartedConsumer(ssrc, order, map, objs) ==
    LET hits == {i \in DOMAIN order :
                    /\ objs[map[order[i]]].started
                    /\ EncodingsHaveSsrc(objs[map[order[i]]].encodings, ssrc)}
    IN  IF hits = {} THEN 0
        ELSE map[order[CHOOSE i \in hits : \A j \in hits : i <= j]]

\* rtpListener.GetProducer(ssrc): the producer of the SSRC, or nullptr.
RtpListenerGetProducer(table, ssrc) ==
    IF RtpListenerHasSsrc(table, ssrc)
    THEN (CHOOSE e \in table : e[1] = ssrc)[2]
    ELSE 0

\* A faulty variant: a report without consumer is skipped and the loop goes on.
RECURSIVE ReceiverReportLoopContinue(_, _, _, _, _)
ReceiverReportLoopContinue(reports, it, order, map, objs) ==
    IF it > Len(reports) THEN <<>>
    ELSE LET consumer == GetStartedConsumer(reports[it], order, map, objs)
             rest == ReceiverReportLoopContinue(reports, it + 1, order, map, objs)
         IN  IF consumer = 0 THEN rest
             ELSE <<Delivery("ReceiveRtcpReceiverReport", "consumer",
                             consumer, it)>> \o rest

\* case RR, lines 342-358: the loop ends at the first report without a
\* started consumer.
RECURSIVE ReceiverReportLoop(_, _, _, _, _)
ReceiverReportLoop(reports, it, order, map, objs) ==
    IF it > Len(reports) THEN <<>>
    ELSE LET consumer == GetStartedConsumer(reports[it], order, map, objs)
         IN  IF consumer = 0 THEN <<>>
             ELSE <<Delivery("ReceiveRtcpReceiverReport", "consumer",
                             consumer, it)>>
                    \o ReceiverReportLoop(reports, it + 1, order, map, objs)

\* A faulty variant: the loop ends at the first report without a producer.
RECURSIVE SenderReportLoopBreak(_, _, _)
SenderReportLoopBreak(reports, it, table) ==
    IF it > Len(reports) THEN <<>>
    ELSE LET producer == RtpListenerGetProducer(table, reports[it])
         IN  IF producer = 0 THEN <<>>
             ELSE <<Delivery("ReceiveRtcpSenderReport", "producer",
                             producer, it)>>
                    \o SenderReportLoopBreak(reports, it + 1, table)

\* case SR, lines 492-509: a report without a producer is skipped.
RECURSIVE SenderReportLoop(_, _, _)
SenderReportLoop(reports, it, table) ==
    IF it > Len(reports) THEN <<>>
    ELSE LET producer == RtpListenerGetProducer(table, reports[it])
             rest == SenderReportLoop(reports, it + 1, table)
         IN  IF producer = 0 THEN rest
             ELSE <<Delivery("ReceiveRtcpSenderReport", "producer",
                             producer, it)>> \o rest

\* case PSFB with PLI or FIR, lines 372-398.
KeyFrameFeedback(packet, order, map, objs) ==
    LET consumer == GetStartedConsumer(packet.mediaSsrc, order, map, objs)
    IN  IF consumer = 0 THEN <<>>
        ELSE <<Delivery("ReceiveKeyFrameRequest", "consumer", consumer,
                        packet.messageType)>>

\* case RTPFB, lines 445-483.
RtpFeedback(packet, order, map, objs) ==
    LET consumer == GetStartedConsumer(packet.mediaSsrc, order, map, objs)
    IN  IF consumer = 0 THEN <<>>
        ELSE IF packet.messageType = "NACK"
             THEN <<Delivery("ReceiveNack", "consumer", consumer, "NACK")>>
             ELSE <<>>

\* A faulty variant: every AFB packet is read as a REMB.
AvailableOutgoingBitrateAnyAfb(packet, cur) ==
    IF packet.type = "PSFB" /\ packet.messageType = "AFB"
    THEN packet.bitrate
    ELSE cur

\* case AFB, lines 401-426: the bitrate of a REMB is stored.
AvailableOutgoingBitrate(packet, cur) ==
    IF /\ packet.type = "PSFB"
       /\ packet.messageType = "AFB"
       /\ packet.application = "REMB"
    THEN packet.bitrate
    ELSE cur

\* The calls ReceiveRtcpPacket makes on consumers and producers.
ReceiveRtcpPacketDeliveries(packet, order, map, objs, table) ==
    CASE packet.type = "RR" ->
            ReceiverReportLoop(packet.reports, 1, order, map, objs)
      [] packet.type = "PSFB" /\ packet.messageType \in {"PLI", "FIR"} ->
            KeyFrameFeedback(packet, order, map, objs)
      [] packet.type = "RTPFB" -> RtpFeedback(packet, order, map, objs)
      [] packet.type = "SR" -> SenderReportLoop(packet.reports, 1, table)
      [] OTHER -> <<>>

ReceiveRtcpPacket(packet) ==
    /\ phase = "alive"
    /\ \E order \in IterationOrders(mapConsumers) :
          turn' = [NoTurn EXCEPT
                      !.op = "ReceiveRtcpPacket", !.packet = packet,
                      !.deliveries =
                          ReceiveRtcpPacketDeliveries(packet, order,
                              mapConsumers, consumers, rtpListener)]
    /\ availableOutgoingBitrate' =
          AvailableOutgoingBitrate(packet, availableOutgoingBitrate)
    /\ UNCHANGED <<mapProducers, mapConsumers, rtpListener,
                   rtpHeaderExtensionIds, maxIncomingBitrate, rtcpTimer, phase,
                   producers, consumers>>

(***************************************************************************)
(* Transport::SendRtcp.  RTC::RTCP::CompoundPacket and BufferSize are not  *)
(* among the sources: a compound is the list of the entities that put      *)
(* something into it, its counts of sender and receiver reports and its    *)
(* size, the sum of the sizes of what was put in.                          *)
(***************************************************************************)
\* RTC::RTCP::BufferSize (RTC/RTCP/Packet.hpp is not among the sources).
BufferSize == 65536

Compound(items, senderReports, receiverReports, size) ==
    [items |-> items, senderReports |-> senderReports,
     receiverReports |-> receiverReports, size |-> size]
EmptyCompound == Compound(<<>>, 0, 0, 0)

\* entity->GetRtcp(packet, now): the entity's reports go into the compound,
\* which lists the entity if it put something in.
GetRtcp(packet, kind, obj, rtcp) ==
    Compound(IF rtcp = NoRtcp THEN packet.items
             ELSE Append(packet.items, [kind |-> kind, obj |-> obj]),
             packet.senderReports + rtcp.senderReports,
             packet.receiverReports + rtcp.receiverReports,
             packet.size + rtcp.size)

\* A faulty variant: the size of the compound is not looked at.
TooBigNever(packet) == FALSE

\* Lines 574 and 598: packet->GetSize() > RTC::RTCP::BufferSize.
TooBig(packet) == packet.size > BufferSize

\* A faulty variant: the compound is flushed after every consumer.
HasSenderReportAlways(packet) == TRUE

\* Line 571: packet->HasSenderReport().
HasSenderReport(packet) == packet.senderReports > 0

SendRtcpResult(sent, packet, aborted) ==
    [sent |-> sent, packet |-> packet, aborted |-> aborted]

\* Lines 564-587: the loop over the consumers from position i on, with the
\* compound `packet` and the compounds `sent` so far.
RECURSIVE SendRtcpConsumers(_, _, _, _, _)
SendRtcpConsumers(report, map, i, packet, sent) ==
    IF i > Len(report.corder) THEN SendRtcpResult(sent, packet, FALSE)
    ELSE LET id == report.corder[i]
             filled == GetRtcp(packet, "consumer", map[id], report.consumers[id])
         IN  IF HasSenderReport(filled)
             THEN IF TooBig(filled)
                  THEN SendRtcpResult(sent, filled, TRUE)
                  ELSE SendRtcpConsumers(report, map, i + 1, EmptyCompound,
                                         Append(sent, filled))
             ELSE SendRtcpConsumers(report, map, i + 1, filled, sent)

\* Lines 589-592: the loop over the producers.
RECURSIVE SendRtcpProducers(_, _, _, _)
SendRtcpProducers(report, map, i, packet) ==
    IF i > Len(report.porder) THEN packet
    ELSE LET id == report.porder[i]
         IN  SendRtcpProducers(report, map, i + 1,
                 GetRtcp(packet, "producer", map[id], report.producers[id]))

\* Transport::SendRtcp: the compounds handed to SendRtcpCompoundPacket, in
\* order, and whether the function returned for a compound that was too big.
\* The second loop is written over this->producers; it is read as the
\* producers of mapProducers.
SendRtcp(report, cmap, pmap) ==
    LET first == SendRtcpConsumers(report, cmap, 1, EmptyCompound, <<>>)
    IN  IF first.aborted THEN first
        ELSE LET last == SendRtcpProducers(report, pmap, 1, first.packet)
             IN  IF last.receiverReports # 0
                 THEN IF TooBig(last)
                      THEN SendRtcpResult(first.sent, last, TRUE)
                      ELSE SendRtcpResult(Append(first.sent, last),
                                          EmptyCompound, FALSE)
                 ELSE SendRtcpResult(first.sent, last, FALSE)

\* A tick at which no entity has anything to report.
QuietReport(cmap, pmap) ==
    Report(CHOOSE o \in IterationOrders(cmap) : TRUE,
           [id \in DOMAIN cmap |-> NoRtcp],
           CHOOSE o \in IterationOrders(pmap) : TRUE,
           [id \in DOMAIN pmap |-> NoRtcp])

(***************************************************************************)
(* Transport::OnTimer.                                                     *)
(***************************************************************************)
\* RTC::RTCP::MaxVideoIntervalMs (RTC/RTCP/Packet.hpp is not among the sources).
MaxVideoIntervalMs == 1000

\* Utils::Crypto::GetRandomUInt(5, 15).
RandomFactors == 5..15

\* consumer->GetTransmissionRate(now), in bits per second (a uint32).
RateChoices == {0, 999, 100000, 361000, 4000000, 360000000}

Pow2(n) == 2 ^ n

\* The number of bits of n: 0 for 0, else the b with 2^(b-1) <= n < 2^b.
BitLength(n) ==
    CHOOSE b \in 0..30 : n < Pow2(b) /\ (b = 0 \/ Pow2(b - 1) <= n)

\* static_cast<float>(k) / 10 as the IEEE 754 binary32 value nearest k/10:
\* m / 2^s with a 24-bit m.
FloatTenths(k) ==
    CASE k = 5 -> [m |-> 8388608, s |-> 24]
      [] k = 6 -> [m |-> 10066330, s |-> 24]
      [] k = 7 -> [m |-> 11744051, s |-> 24]
      [] k = 8 -> [m |-> 13421773, s |-> 24]
      [] k = 9 -> [m |-> 15099494, s |-> 24]
      [] k = 10 -> [m |-> 8388608, s |-> 23]
      [] k = 11 -> [m |-> 9227469, s |-> 23]
      [] k = 12 -> [m |-> 10066330, s |-> 23]
      [] k = 13 -> [m |-> 10905190, s |-> 23]
      [] k = 14 -> [m |-> 11744051, s |-> 23]
      [] k = 15 -> [m |-> 12582912, s |-> 23]

\* interval *= float: the uint64 converted to binary32 (exact below 2^24),
\* multiplied, the product rounded to 24 bits (ties to even) and truncated
\* to uint64.  The product x * m needs up to 34 bits, so m is split into
\* 12-bit halves: x * m = a * 4096 + lo, its integer part is whole and its
\* fraction is frac / 2^s.  The rounding drops d low bits of the product and
\* reaches the next integer iff the fraction is within half a unit of it.
MulFloatToUint64(x, k) ==
    LET f == FloatTenths(k)
        a == x * (f.m \div 4096) + (x * (f.m % 4096)) \div 4096
        lo == (x * (f.m % 4096)) % 4096
        whole == a \div Pow2(f.s - 12)
        frac == (a % Pow2(f.s - 12)) * 4096 + lo
        d == BitLength(whole) + f.s - 24
    IN  IF whole > 0 /\ d > 0 /\ Pow2(f.s) - frac <= Pow2(d - 1)
        THEN whole + 1
        ELSE whole

\* The sum of rate / 1000 over the consumers of the map.  The sum is a
\* uint32; each term is below 2^32 / 1000, so that it wraps only with more
\* than a thousand consumers.
RECURSIVE SumKbps(_)
SumKbps(rates) ==
    IF DOMAIN rates = {} THEN 0
    ELSE LET x == CHOOSE y \in DOMAIN rates : TRUE
         IN  rates[x] \div 1000
               + SumKbps([z \in DOMAIN rates \ {x} |-> rates[z]])

\* A faulty variant: the interval is not capped at MaxVideoIntervalMs.
BaseIntervalUncapped(rates) ==
    IF DOMAIN rates = {} THEN MaxVideoIntervalMs
    ELSE IF SumKbps(rates) # 0 THEN 360000 \div SumKbps(rates)
    ELSE MaxVideoIntervalMs

\* Lines 686-711: the interval before the random factor.
BaseInterval(rates) ==
    IF DOMAIN rates = {} THEN MaxVideoIntervalMs
    ELSE LET rate == SumKbps(rates)
             interval == IF rate # 0 THEN 360000 \div rate
                         ELSE MaxVideoIntervalMs
         IN  IF interval > MaxVideoIntervalMs THEN MaxVideoIntervalMs
             ELSE interval

\* Line 718: the interval the timer is started with.
NextInterval(rates, k) == MulFloatToUint64(BaseInterval(rates), k)

\* rtcpTimer->Start(interval), as a call of the turn.
Start == Event("Start", "timer", 0)

\* A faulty variant: a tick whose SendRtcp gave up does not rearm the timer.
OnTimerEventsUnlessAborted(res) ==
    [i \in DOMAIN res.sent |-> Event("SendRtcpCompoundPacket", "compound", i)]
        \o (IF res.aborted THEN <<>> ELSE <<Start>>)

\* Lines 689-719: SendRtcp, whose return leads back into OnTimer whether or
\* not it gave up, and then the rearming.
OnTimerEvents(res) ==
    [i \in DOMAIN res.sent |-> Event("SendRtcpCompoundPacket", "compound", i)]
        \o <<Start>>

\* The one-shot timer after its callback at the loop time `now`: armed iff
\* Start() was called, and then started at that time.  Of the loop time the
\* model keeps the parity of the number of the loop iteration.
TimerAfter(timer, events, interval, now) ==
    IF Count(events, "Start", "timer", 0) > 0
    THEN [active |-> TRUE, interval |-> interval, at |-> now]
    ELSE [timer EXCEPT !.active = FALSE]

\* The callback of the RTCP timer.  The transport variant starts the timer;
\* the only test of OnTimer is that of the timer's identity (line 684), so
\* the callback does the same before and after Close().
OnTimer(rates, k, report, now) ==
    /\ phase \in {"alive", "closed"}
    /\ LET res == SendRtcp(report, mapConsumers, mapProducers)
       IN  turn' = [NoTurn EXCEPT !.op = "OnTimer", !.rates = rates, !.k = k,
                                  !.report = report, !.sent = res.sent,
                                  !.aborted = res.aborted,
                                  !.events = OnTimerEvents(res)]
    /\ rtcpTimer' = TimerAfter(rtcpTimer, turn'.events, NextInterval(rates, k),
                            now)
    /\ UNCHANGED <<mapProducers, mapConsumers, rtpListener,
                   rtpHeaderExtensionIds, maxIncomingBitrate,
                   availableOutgoingBitrate, phase, producers, consumers>>

(***************************************************************************)
(* The specifications.                                                     *)
(***************************************************************************)
Init ==
    /\ mapProducers = EmptyMap
    /\ mapConsumers = EmptyMap
    /\ rtpListener = {}
    /\ rtpHeaderExtensionIds = HeaderExtensionIds(0, 0, 0)
    /\ maxIncomingBitrate = 0
    /\ availableOutgoingBitrate = 0
    /\ rtcpTimer = [active |-> FALSE, interval |-> 0, at |-> 0]
    /\ phase = "alive"
    /\ producers = <<>>
    /\ consumers = <<>>
    /\ turn = NoTurn

\* The requests that name an entity to close, by an id that is or is not in
\* the map.
CloseRequests ==
    {r \in Requests :
        \/ r.methodId = "PRODUCER_CLOSE" /\ r.producerId.t = "string"
        \/ r.methodId = "CONSUMER_CLOSE" /\ r.consumerId.t = "string"}

ConsumerCloseRequests ==
    {Request("CONSUMER_CLOSE", JsonMissing, JsonMissing, JsonString(id)) :
        id \in ConsumerIds}

\* The life of a transport: registrations, close requests, Close() and the
\* destructor.
Next ==
    \/ \E p \in NewProducers(SsrcSets, {HeaderExtensionIds(1, 2, 1)}) :
          HandleProducer(p)
    \/ \E id \in ConsumerIds, kind \in Kinds, connected \in BOOLEAN :
          HandleConsumer(id, kind, connected)
    \/ \E req \in CloseRequests : HandleRequest(req)
    \/ Close
    \/ Destructor

Spec == Init /\ [][Next]_vars

\* The channel: every request, well-formed or not, on a transport whose
\* producers and consumers come and go.
NextRequests ==
    \/ \E p \in NewProducers({{x} : x \in Ssrcs}, {HeaderExtensionIds(1, 2, 1)}) :
          HandleProducer(p)
    \/ \E id \in ConsumerIds : HandleConsumer(id, "video", TRUE)
    \/ \E req \in Requests : HandleRequest(req)

SpecRequests == Init /\ [][NextRequests]_vars

\* Creation: the id helpers and the registrations, with producers whose
\* SSRCs may collide, and the close requests that free ids and SSRCs.
NextConflicts ==
    \/ \E p \in NewProducers(SsrcSets, {HeaderExtensionIds(0, 0, 0),
                                         HeaderExtensionIds(1, 2, 1)}) :
          HandleProducer(p)
    \/ \E id \in ConsumerIds : HandleConsumer(id, "video", TRUE)
    \/ \E json \in JsonIds(ProducerIds) : SetNewProducerIdFromRequest(json)
    \/ \E json \in JsonIds(ConsumerIds) : SetNewConsumerIdFromRequest(json)
    \/ \E req \in CloseRequests : HandleRequest(req)

SpecConflicts == Init /\ [][NextConflicts]_vars

\* The header extension ids of a transport: producers with every combination
\* of ids, one SSRC each, the producer closes and the bitrate requests.
NextHeaderExtensionIds ==
    \/ \E p \in NewProducers({{x} : x \in Ssrcs}, AllHeaderExtensionIds) :
          HandleProducer(p)
    \/ \E req \in {r \in CloseRequests : r.methodId = "PRODUCER_CLOSE"}
                    \cup {Request("TRANSPORT_SET_MAX_INCOMING_BITRATE",
                                  JsonUnsigned(0, 500), JsonMissing, JsonMissing)} :
          HandleRequest(req)

SpecHeaderExtensionIds == Init /\ [][NextHeaderExtensionIds]_vars

\* The RTCP timer of a live transport that gets its consumers.
NextTimer ==
    \/ \E id \in ConsumerIds : HandleConsumer(id, "video", TRUE)
    \/ LET quiet == QuietReport(mapConsumers, mapProducers)
       IN  \E rates \in [DOMAIN mapConsumers -> RateChoices], k \in RandomFactors :
              OnTimer(rates, k, quiet, 0)

SpecTimer == Init /\ [][NextTimer]_vars

\* Reports (or chunks) in one RTCP packet.
MaxReports == 3

\* The report blocks of a packet, by their SSRCs in wire order.
ReportSequences(ssrcs) == UNION {[1..n -> ssrcs] : n \in 0..MaxReports}

ReceiverReportPackets ==
    {RtcpPacket("RR", "", "", 0, 0, r) : r \in ReportSequences({200, 300})}

SenderReportPackets ==
    {RtcpPacket("SR", "", "", 0, 0, r) : r \in ReportSequences(Ssrcs)}

KeyFrameFeedbackPackets ==
    {RtcpPacket("PSFB", m, "", s, 0, <<>>) :
        m \in {"PLI", "FIR"}, s \in {200, 300, 400}}

\* The bitrates the REMB packets carry.
RembBitrates == {30000, 750000}

RembPackets ==
    {RtcpPacket("PSFB", "AFB", "REMB", 0, b, <<>>) : b \in RembBitrates}

\* One packet of every other kind: an AFB that is not a REMB, another PSFB,
\* a NACK and another RTPFB, an SDES, a BYE and a type the switch does not
\* know.
OtherPackets ==
    {RtcpPacket("PSFB", "AFB", "UNKNOWN", 200, 64000, <<>>),
     RtcpPacket("PSFB", "SLI", "", 200, 0, <<>>),
     RtcpPacket("RTPFB", "NACK", "", 200, 0, <<>>),
     RtcpPacket("RTPFB", "TMMBR", "", 200, 0, <<>>),
     RtcpPacket("SDES", "", "", 0, 0, <<100, 200>>),
     RtcpPacket("BYE", "", "", 0, 0, <<>>),
     RtcpPacket("XR", "", "", 0, 0, <<>>)}

\* Inbound RTCP for the consumers: receiver reports and key-frame feedback
\* on a transport whose consumers come, start, stop, change their streams
\* and go.
NextRtcpConsumers ==
    \/ \E id \in ConsumerIds : HandleConsumer(id, "video", TRUE)
    \/ \E o \in DOMAIN consumers, started \in BOOLEAN,
          encodings \in ConsumerEncodings :
          ConsumerStateChanged(o, started, encodings)
    \/ \E req \in ConsumerCloseRequests : HandleRequest(req)
    \/ \E packet \in ReceiverReportPackets \cup KeyFrameFeedbackPackets :
          ReceiveRtcpPacket(packet)

SpecRtcpConsumers == Init /\ [][NextRtcpConsumers]_vars

\* Inbound RTCP of every kind on a transport with producers and a consumer.
NextRtcp ==
    \/ \E p \in NewProducers({{x} : x \in Ssrcs}, {HeaderExtensionIds(1, 2, 1)}) :
          HandleProducer(p)
    \/ HandleConsumer("c1", "video", TRUE)
    \/ \E o \in DOMAIN consumers :
          ConsumerStateChanged(o, TRUE, <<Encoding(200, FALSE, 0, FALSE, 0)>>)
    \/ \E req \in {r \in CloseRequests : r.methodId = "PRODUCER_CLOSE"} :
          HandleRequest(req)
    \/ \E packet \in SenderReportPackets \cup RembPackets \cup OtherPackets
                        \cup {RtcpPacket("RR", "", "", 0, 0, <<200>>),
                              RtcpPacket("PSFB", "PLI", "", 200, 0, <<>>)} :
          ReceiveRtcpPacket(packet)

SpecRtcp == Init /\ [][NextRtcp]_vars

\* What a consumer and a producer may put into the compound at a tick:
\* nothing; a sender report; reports that are no sender report, of a size
\* that fills more than half of the buffer; a sender report with more than
\* the buffer holds; a receiver report; receiver reports that fill more
\* than half of the buffer.
ConsumerRtcps == {NoRtcp, Rtcp(1, 0, 52), Rtcp(0, 0, 40000), Rtcp(1, 0, 70000)}
ProducerRtcps == {NoRtcp, Rtcp(0, 1, 32), Rtcp(0, 1, 40000)}

\* The reports of a tick, for the entities that are in the maps.
Reports ==
    {Report(corder, crtcp, porder, prtcp) :
        corder \in IterationOrders(mapConsumers),
        crtcp \in [DOMAIN mapConsumers -> ConsumerRtcps],
        porder \in IterationOrders(mapProducers),
        prtcp \in [DOMAIN mapProducers -> ProducerRtcps]}

\* A callback of the RTCP timer with consumers that send nothing: the
\* interval is MaxVideoIntervalMs.  The callback runs in a later iteration
\* of the loop than the one that started the timer.
Tick(report) ==
    OnTimer([id \in DOMAIN mapConsumers |-> 0], 10, report, 1 - rtcpTimer.at)

\* Outbound RTCP: a producer and consumers, the timer's callbacks (the
\* first one after the transport variant started the timer, and callbacks
\* that are delivered after Close()) and Close().
NextSendRtcp ==
    \/ HandleProducer([id |-> "p1", ssrcs |-> {100},
                       ext |-> HeaderExtensionIds(1, 2, 1)])
    \/ \E id \in ConsumerIds : HandleConsumer(id, "video", TRUE)
    \/ \E report \in Reports : Tick(report)
    \/ Close

SpecSendRtcp == Init /\ [][NextSendRtcp]_vars

\* The reports of a tick whose consumers have a sender report, or a sender
\* report with more than the buffer holds, and whose producers have nothing
\* or a receiver report.
TimerReports ==
    {Report(corder, crtcp, porder, prtcp) :
        corder \in IterationOrders(mapConsumers),
        crtcp \in [DOMAIN mapConsumers ->
                      {Rtcp(1, 0, 52), Rtcp(1, 0, 70000)}],
        porder \in IterationOrders(mapProducers),
        prtcp \in [DOMAIN mapProducers -> {NoRtcp, Rtcp(0, 1, 32)}]}

\* The callback of a timer that is armed, on a transport that is alive.
TimerFires ==
    /\ phase = "alive"
    /\ rtcpTimer.active
    /\ \E report \in TimerReports : Tick(report)

\* The RTCP timer over the life of a transport: the entities come, the
\* timer's callbacks run (the first one after the transport variant started
\* the timer, and callbacks that are delivered after Close()), and Close().
NextTimerLife ==
    \/ HandleProducer([id |-> "p1", ssrcs |-> {100},
                       ext |-> HeaderExtensionIds(1, 2, 1)])
    \/ \E id \in ConsumerIds : HandleConsumer(id, "video", TRUE)
    \/ \E report \in TimerReports : Tick(report)
    \/ Close

\* The timer is a one-shot timer of the event loop: once armed on a live
\* transport, its callback runs.
SpecTimerLife == Init /\ [][NextTimerLife]_vars /\ WF_vars(TimerFires)

(***************************************************************************)
(* The properties.                                                         *)
(***************************************************************************)
ClosedEvent(kind) ==
    IF kind = "producer" THEN "OnTransportProducerClosed"
    ELSE "OnTransportConsumerClosed"

\* In the events of one turn, the delete at position i comes after the
\* entity's closed callback, and nothing deleted the entity before that
\* callback.
NotifiedBeforeDelete(events, i) ==
    \E j \in 1..(i - 1) :
        /\ events[j] = Event(ClosedEvent(events[i].kind), events[i].kind,
                             events[i].obj)
        /\ \A h \in 1..(j - 1) : events[h] # events[i]

AllDeletesNotified(events) ==
    \A i \in DOMAIN events :
        events[i].e = "delete" => NotifiedBeforeDelete(events, i)

\* C1 as claimed: in every event turn, the destructor's included, every
\* producer or consumer that is deleted had its closed callback invoked on
\* the listener earlier in the turn, while it was alive.
C1_CloseBeforeDestroy == AllDeletesNotified(turn.events)

\* C1 as amended: in the turns of PRODUCER_CLOSE, CONSUMER_CLOSE and Close()
\* every deleted producer or consumer had its closed callback invoked
\* earlier in the turn, while alive; the destructor deletes what is still in
\* the maps and invokes no callback.
C1_CloseBeforeDestroyUnlessDestructor ==
    /\ turn.op # "~Transport" => AllDeletesNotified(turn.events)
    /\ turn.op = "~Transport" =>
          \A i \in DOMAIN turn.events : turn.events[i].e = "delete"

\* C1's case: Close() has notified and deleted a producer and a consumer.
C1_Witness ==
    /\ turn.op = "Close"
    /\ \E i, j \in DOMAIN turn.events :
          /\ turn.events[i].e = "delete" /\ turn.events[i].kind = "producer"
          /\ turn.events[j].e = "delete" /\ turn.events[j].kind = "consumer"

\* An entity object is in its map, is alive and was never notified as
\* closed; or it is out of the map, was deleted once and notified once.
ExactlyOnce(objs, map) ==
    \A o \in DOMAIN objs :
        /\ objs[o].deleted <= 1
        /\ objs[o].closed = objs[o].deleted
        /\ (objs[o].deleted = 0) <=> (o \in MapValues(map))

\* C2 as claimed: up to the destructor, every registered producer and
\* consumer (one registered under an id already in the map included) is in
\* its map and alive, or was destroyed exactly once with exactly one closed
\* callback; none leaves the map without being destroyed.
C2_ExactlyOnceLifetime ==
    phase # "destroyed" =>
        ExactlyOnce(producers, mapProducers) /\ ExactlyOnce(consumers, mapConsumers)

\* C3 as claimed: up to the destructor, the SSRCs of rtpListener are those
\* of the producers in the map, and every entry of rtpListener names a
\* producer that is in the map.
C3_ListenerMatchesMap ==
    phase # "destroyed" =>
        /\ RtpListenerSsrcs(rtpListener)
              = UNION {producers[o].ssrcs : o \in MapValues(mapProducers)}
        /\ \A e \in rtpListener : e[2] \in MapValues(mapProducers)

\* C4 as claimed: a PRODUCER_CLOSE of the producer that the previous turn
\* registered leaves the producers map and rtpListener as they were before
\* the registration.
C4_RegisterCloseRoundTrip ==
    [][(/\ turn.op = "HandleProducer" /\ ~turn.threw
        /\ turn'.op = "HandleRequest"
        /\ turn'.req.methodId = "PRODUCER_CLOSE"
        /\ turn'.req.producerId = JsonString(turn.id)
        /\ turn'.response = "accept")
       => /\ mapProducers' = turn.preMapProducers
          /\ rtpListener' = turn.preRtpListener]_vars

\* A uint64 as its two 32-bit words, and the order of such numbers.
Wide(hi, lo) == [hi |-> hi, lo |-> lo]
WideLess(a, b) == a.hi < b.hi \/ (a.hi = b.hi /\ a.lo < b.lo)
WideMax(a, b) == IF WideLess(a, b) THEN b ELSE a

\* C5 as claimed: a TRANSPORT_SET_MAX_INCOMING_BITRATE request whose
\* data.bitrate is the unsigned integer v is accepted and leaves
\* maxIncomingBitrate = max(v, 10000).
C5_BitrateFloor ==
    (/\ turn.op = "HandleRequest"
     /\ turn.req.methodId = "TRANSPORT_SET_MAX_INCOMING_BITRATE"
     /\ turn.req.bitrate.t = "unsigned")
    => /\ turn.response = "accept"
       /\ Wide(0, maxIncomingBitrate)
            = WideMax(Wide(turn.req.bitrate.hi, turn.req.bitrate.lo),
                      Wide(0, MinBitrate))

\* The requests the claim C6 lists, given the maps they meet.
Malformed(req, pmap, cmap) ==
    \/ /\ req.methodId = "TRANSPORT_SET_MAX_INCOMING_BITRATE"
       /\ req.bitrate.t # "unsigned"
    \/ /\ req.methodId = "PRODUCER_CLOSE"
       /\ (req.producerId.t # "string" \/ req.producerId.s \notin DOMAIN pmap)
    \/ /\ req.methodId = "CONSUMER_CLOSE"
       /\ (req.consumerId.t # "string" \/ req.consumerId.s \notin DOMAIN cmap)
    \/ req.methodId \notin {"TRANSPORT_SET_MAX_INCOMING_BITRATE",
                            "PRODUCER_CLOSE", "CONSUMER_CLOSE"}

\* C6: a request with a missing or non-unsigned bitrate, with a missing,
\* non-string or unknown id, or with an unknown method is rejected; and a
\* rejected request changes no map, not rtpListener, maxIncomingBitrate or
\* the header extension ids, calls nothing on the listener and deletes
\* nothing.
C6_RejectedRequestsDoNotMutate ==
    [][(/\ turn'.op = "HandleRequest"
        /\ \/ Malformed(turn'.req, mapProducers, mapConsumers)
           \/ turn'.response = "reject")
       => /\ turn'.response = "reject"
          /\ \A i \in DOMAIN turn'.events : turn'.events[i] = Reject
          /\ UNCHANGED <<transport, producers, consumers>>]_vars

\* C6's case: a PRODUCER_CLOSE for an id no producer has was rejected by a
\* transport that has producers, consumers and a bitrate to lose.
C6_Witness ==
    /\ turn.op = "HandleRequest"
    /\ turn.req.methodId = "PRODUCER_CLOSE"
    /\ turn.req.producerId.t = "string"
    /\ turn.response = "reject"
    /\ mapProducers # EmptyMap
    /\ mapConsumers # EmptyMap
    /\ maxIncomingBitrate # 0

\* C7: a producer one of whose SSRCs is already in rtpListener is not
\* registered, and an id that is already in the producers (consumers) map is
\* refused as the id of a new producer (consumer): the error surfaces and
\* the maps, rtpListener, the header extension ids and maxIncomingBitrate
\* are as before the attempt.
C7_ConflictsDoNotInstall ==
    [][(\/ /\ turn'.op = "HandleProducer"
           /\ turn'.ssrcs \cap RtpListenerSsrcs(rtpListener) # {}
        \/ /\ turn'.op = "SetNewProducerIdFromRequest"
           /\ turn'.req.producerId.t = "string"
           /\ turn'.req.producerId.s \in DOMAIN mapProducers
        \/ /\ turn'.op = "SetNewConsumerIdFromRequest"
           /\ turn'.req.consumerId.t = "string"
           /\ turn'.req.consumerId.s \in DOMAIN mapConsumers)
       => /\ turn'.threw
          /\ UNCHANGED <<transport, producers, consumers>>]_vars

\* C7's case: a producer with a new id and header extension ids of its own
\* was turned away for an SSRC that another producer holds.
C7_Witness ==
    /\ turn.op = "HandleProducer"
    /\ turn.threw
    /\ turn.id \notin DOMAIN mapProducers
    /\ turn.ext # rtpHeaderExtensionIds
    /\ mapProducers # EmptyMap

\* C8: no SSRC of rtpListener maps to two producers.
C8_SsrcUniqueness ==
    \A e1, e2 \in rtpListener : e1[1] = e2[1] => e1[2] = e2[2]

\* C8's case: a registration was refused for an SSRC in use while rtpListener
\* holds the SSRCs of an earlier producer.
C8_Witness ==
    /\ turn.op = "HandleProducer"
    /\ turn.threw
    /\ turn.ssrcs \cap RtpListenerSsrcs(rtpListener) # {}
    /\ turn.ssrcs \ RtpListenerSsrcs(rtpListener) # {}

\* C9: a header extension id of the transport that is not 0 is not 0 after
\* any step: a registration (of a producer whose id is 0 too), a close,
\* another request.
C9_HeaderExtensionIdsStayNonZero ==
    [][/\ rtpHeaderExtensionIds.absSendTime # 0
            => rtpHeaderExtensionIds'.absSendTime # 0
       /\ rtpHeaderExtensionIds.mid # 0 => rtpHeaderExtensionIds'.mid # 0
       /\ rtpHeaderExtensionIds.rid # 0 => rtpHeaderExtensionIds'.rid # 0]_vars

\* C9's case: a producer without absSendTime and with another mid was
\* registered on a transport that had both, and the transport kept its
\* absSendTime and took the new mid.
C9_Witness ==
    /\ turn.op = "HandleProducer"
    /\ ~turn.threw
    /\ turn.ext.absSendTime = 0
    /\ rtpHeaderExtensionIds.absSendTime = 1
    /\ turn.ext.mid = 2
    /\ rtpHeaderExtensionIds.mid = 2
    /\ rtpHeaderExtensionIds.rid # 0
    /\ turn.ext.rid = 0
    /\ Len(producers) = 2

\* The base interval of the claim C10, from the rates the consumers report.
C10_Base(rates) ==
    IF DOMAIN rates = {} \/ SumKbps(rates) = 0 THEN MaxVideoIntervalMs
    ELSE IF 360000 \div SumKbps(rates) < MaxVideoIntervalMs
         THEN 360000 \div SumKbps(rates)
         ELSE MaxVideoIntervalMs

\* C10 as claimed: the timer is rearmed with an interval between 0.5 * base
\* and 1.5 * MaxVideoIntervalMs.
C10_IntervalBound ==
    turn.op = "OnTimer" =>
        /\ 5 * C10_Base(turn.rates) <= 10 * rtcpTimer.interval
        /\ 10 * rtcpTimer.interval <= 15 * MaxVideoIntervalMs

\* C10 as amended: the timer is rearmed with an interval between 0.5 * base
\* rounded down and 1.5 * MaxVideoIntervalMs.
C10_IntervalBoundRoundedDown ==
    turn.op = "OnTimer" =>
        /\ C10_Base(turn.rates) \div 2 <= rtcpTimer.interval
        /\ 10 * rtcpTimer.interval <= 15 * MaxVideoIntervalMs

\* C10's case: two consumers, 361 kbit/s in all, and the factor 5/10: the
\* base is 997 ms and the timer is rearmed with 498 ms.
C10_Witness ==
    /\ turn.op = "OnTimer"
    /\ Cardinality(DOMAIN turn.rates) = 2
    /\ C10_Base(turn.rates) = 997
    /\ turn.k = 5
    /\ rtcpTimer.interval = 498

\* The key-frame requests of a turn for the consumer `obj`: on the consumer
\* itself or through the router listener.
KeyFrameRequests(events, obj) ==
    Count(events, "RequestKeyFrame", "consumer", obj)
        + Count(events, "OnTransportConsumerKeyFrameRequested", "consumer", obj)

\* C14 as claimed: HandleConsumer puts the consumer into the map, and a key
\* frame is requested for it if and only if the transport is connected and
\* the consumer is a video consumer; an audio consumer, or a transport that
\* is not connected, triggers no key-frame request.
C14_KeyFrameOnRegistration ==
    turn.op = "HandleConsumer" =>
        /\ turn.id \in DOMAIN mapConsumers
        /\ mapConsumers[turn.id] = turn.obj
        /\ KeyFrameRequests(turn.events, turn.obj)
              = (IF turn.connected /\ turn.kind = "video" THEN 1 ELSE 0)

\* The positions of the calls of `events` that equal `ev`.
Positions(events, ev) == {i \in DOMAIN events : events[i] = ev}

\* In a turn that closed the entity `obj` of kind `kind`, Accept() comes
\* after the erase from the map and after the listener's closed callback.
AcceptAfterClose(events, kind, obj) ==
    \A k \in Positions(events, Accept) :
        /\ \E i \in 1..(k - 1) : events[i] = Event("erase", kind, obj)
        /\ \E j \in 1..(k - 1) : events[j] = Event(ClosedEvent(kind), kind, obj)

\* C20: every HandleRequest ends with exactly one response on the request,
\* one Accept() or one Reject() and never both or none, whatever the
\* method, the fields and the ids; and a close request is accepted only
\* after the entity is out of its map and the listener was notified.
C20_ExactlyOneResponse ==
    turn.op = "HandleRequest" =>
        /\ Cardinality(Positions(turn.events, Accept))
              + Cardinality(Positions(turn.events, Reject)) = 1
        /\ (turn.req.methodId = "PRODUCER_CLOSE" /\ turn.response = "accept") =>
              /\ turn.req.producerId.s \notin DOMAIN mapProducers
              /\ \E o \in DOMAIN producers :
                    AcceptAfterClose(turn.events, "producer", o)
        /\ (turn.req.methodId = "CONSUMER_CLOSE" /\ turn.response = "accept") =>
              /\ turn.req.consumerId.s \notin DOMAIN mapConsumers
              /\ \E o \in DOMAIN consumers :
                    AcceptAfterClose(turn.events, "consumer", o)

\* C20's case: a PRODUCER_CLOSE was accepted on a transport that still has
\* another producer.
C20_Witness ==
    /\ turn.op = "HandleRequest"
    /\ turn.req.methodId = "PRODUCER_CLOSE"
    /\ turn.response = "accept"
    /\ Positions(turn.events, Accept) = {Len(turn.events)}
    /\ mapProducers # EmptyMap

\* The consumers of the map that are started and have the SSRC in one of
\* their encodings, as primary, RTX (when present) or FEC (when present).
StartedConsumersOf(ssrc) ==
    {o \in MapValues(mapConsumers) :
        /\ consumers[o].started
        /\ \E i \in DOMAIN consumers[o].encodings :
              LET encoding == consumers[o].encodings[i]
              IN  \/ encoding.ssrc = ssrc
                  \/ encoding.hasRtx /\ encoding.rtx.ssrc = ssrc
                  \/ encoding.hasFec /\ encoding.fec.ssrc = ssrc}

\* The position of the first report of the RR that no started consumer
\* matches, or one past the last report.
FirstMiss(reports) ==
    LET misses == {i \in DOMAIN reports : StartedConsumersOf(reports[i]) = {}}
    IN  IF misses = {} THEN Len(reports) + 1
        ELSE CHOOSE i \in misses : \A j \in misses : i <= j

\* C11: the reports of a dispatched RR are handled in wire order; each one
\* before the first report without a started consumer is delivered to a
\* started consumer that has its SSRC, and neither that report nor any
\* later one of the packet is delivered to anybody.
C11_ReceiverReportFirstMissAbort ==
    (turn.op = "ReceiveRtcpPacket" /\ turn.packet.type = "RR") =>
        /\ Len(turn.deliveries) = FirstMiss(turn.packet.reports) - 1
        /\ \A i \in DOMAIN turn.deliveries :
              /\ turn.deliveries[i].e = "ReceiveRtcpReceiverReport"
              /\ turn.deliveries[i].arg = i
              /\ turn.deliveries[i].obj
                    \in StartedConsumersOf(turn.packet.reports[i])

\* C11's case: of three reports the first was delivered, the second has no
\* started consumer, and the third, which has one, was not delivered.
C11_Witness ==
    /\ turn.op = "ReceiveRtcpPacket"
    /\ turn.packet.type = "RR"
    /\ Len(turn.packet.reports) = 3
    /\ Len(turn.deliveries) = 1
    /\ StartedConsumersOf(turn.packet.reports[3]) # {}

\* C12: a dispatched PLI or FIR with media SSRC s makes exactly one
\* key-frame request, tagged with the message type, on a started consumer
\* that has s as primary, RTX or FEC SSRC of an encoding; without such a
\* consumer nothing is delivered; a consumer that is not started receives
\* nothing and the router listener is not called.
C12_KeyFrameFeedbackRouting ==
    (/\ turn.op = "ReceiveRtcpPacket"
     /\ turn.packet.type = "PSFB"
     /\ turn.packet.messageType \in {"PLI", "FIR"})
    => /\ IF StartedConsumersOf(turn.packet.mediaSsrc) = {}
          THEN turn.deliveries = <<>>
          ELSE /\ Len(turn.deliveries) = 1
               /\ turn.deliveries[1].e = "ReceiveKeyFrameRequest"
               /\ turn.deliveries[1].arg = turn.packet.messageType
               /\ turn.deliveries[1].obj
                     \in StartedConsumersOf(turn.packet.mediaSsrc)
       /\ \A i \in DOMAIN turn.deliveries :
             consumers[turn.deliveries[i].obj].started
       /\ turn.events = <<>>

\* C12's case: a FIR for an SSRC that is the FEC SSRC of a started consumer
\* and the SSRC of a consumer that is not started went to the former.
C12_Witness ==
    /\ turn.op = "ReceiveRtcpPacket"
    /\ turn.packet.messageType = "FIR"
    /\ turn.packet.mediaSsrc = 400
    /\ Len(turn.deliveries) = 1
    /\ consumers[turn.deliveries[1].obj].encodings[1].ssrc = 200
    /\ \E o \in MapValues(mapConsumers) :
          ~consumers[o].started /\ consumers[o].encodings # <<>>
              /\ consumers[o].encodings[1].ssrc = 400

\* C13: a dispatched PSFB/AFB packet with application REMB leaves its
\* bitrate in availableOutgoingBitrate, so that the value is always that of
\* the last REMB dispatched; a packet of any other kind (RR, SR, SDES, BYE,
\* PLI/FIR, another AFB, RTPFB, an unknown type) leaves
\* availableOutgoingBitrate, maxIncomingBitrate, the producers, the
\* consumers and rtpListener as they were.
C13_RembIngest ==
    [][turn'.op = "ReceiveRtcpPacket" =>
        IF /\ turn'.packet.type = "PSFB"
           /\ turn'.packet.messageType = "AFB"
           /\ turn'.packet.application = "REMB"
        THEN availableOutgoingBitrate' = turn'.packet.bitrate
        ELSE UNCHANGED <<availableOutgoingBitrate, maxIncomingBitrate,
                         mapProducers, mapConsumers, rtpListener, producers,
                         consumers>>]_vars

\* C13's case: after a REMB of 750000, an AFB that is not a REMB and carries
\* another number was dispatched on a transport with a producer and a
\* consumer.
C13_Witness ==
    /\ turn.op = "ReceiveRtcpPacket"
    /\ turn.packet.messageType = "AFB"
    /\ turn.packet.application # "REMB"
    /\ turn.packet.bitrate # 750000
    /\ availableOutgoingBitrate = 750000
    /\ mapProducers # EmptyMap
    /\ mapConsumers # EmptyMap

\* C19: every report of a dispatched SR whose SSRC is in rtpListener is
\* delivered to the producer of that SSRC, in wire order, whatever the
\* number of reports before it whose SSRC is unknown; a report with an
\* unknown SSRC is delivered to nobody.
C19_SenderReportMissContinues ==
    (turn.op = "ReceiveRtcpPacket" /\ turn.packet.type = "SR") =>
        LET reports == turn.packet.reports
            known == {i \in DOMAIN reports :
                        reports[i] \in RtpListenerSsrcs(rtpListener)}
        IN  /\ Len(turn.deliveries) = Cardinality(known)
            /\ {turn.deliveries[n].arg : n \in DOMAIN turn.deliveries} = known
            /\ \A n, m \in DOMAIN turn.deliveries :
                  n < m => turn.deliveries[n].arg < turn.deliveries[m].arg
            /\ \A n \in DOMAIN turn.deliveries :
                  /\ turn.deliveries[n].e = "ReceiveRtcpSenderReport"
                  /\ <<reports[turn.deliveries[n].arg], turn.deliveries[n].obj>>
                        \in rtpListener

\* C19's case: of three reports the first and the second have an unknown
\* SSRC, and the third was delivered to its producer.
C19_Witness ==
    /\ turn.op = "ReceiveRtcpPacket"
    /\ turn.packet.type = "SR"
    /\ Len(turn.packet.reports) = 3
    /\ turn.packet.reports[1] \notin RtpListenerSsrcs(rtpListener)
    /\ turn.packet.reports[2] \notin RtpListenerSsrcs(rtpListener)
    /\ Len(turn.deliveries) = 1
    /\ turn.deliveries[1].arg = 3

\* C15 as claimed: once Close() has run the RTCP timer is stopped, and a
\* callback of the timer that is delivered afterwards is a no-op: it hands
\* no compound to the send hook and does not rearm the timer.
C15_TimerQuiescentAfterClose ==
    phase = "closed" =>
        /\ ~rtcpTimer.active
        /\ turn.op = "OnTimer" =>
              /\ turn.sent = <<>>
              /\ Count(turn.events, "Start", "timer", 0) = 0

RECURSIVE SeqSum(_)
SeqSum(s) == IF s = <<>> THEN 0 ELSE Head(s) + SeqSum(Tail(s))

\* The positions, in the order the consumers are visited, of the consumers
\* that put a sender report into the compound, in increasing order.
FlushPositions(report) ==
    LET at == {i \in DOMAIN report.corder :
                  report.consumers[report.corder[i]].senderReports > 0}
    IN  CHOOSE f \in [1..Cardinality(at) -> at] :
            \A n, m \in DOMAIN f : n < m => f[n] < f[m]

\* The compound made of what the consumers visited at the positions lo..hi
\* and the producers visited at the positions 1..phi put in, in that order.
Accumulated(report, cmap, pmap, lo, hi, phi) ==
    LET cs == SubSeq(report.corder, lo, hi)
        ps == SubSeq(report.porder, 1, phi)
        all == [i \in DOMAIN cs |->
                    [kind |-> "consumer", obj |-> cmap[cs[i]],
                     rtcp |-> report.consumers[cs[i]]]]
               \o [i \in DOMAIN ps |->
                    [kind |-> "producer", obj |-> pmap[ps[i]],
                     rtcp |-> report.producers[ps[i]]]]
        some == SelectSeq(all, LAMBDA x : x.rtcp # NoRtcp)
    IN  [items |-> [i \in DOMAIN some |->
                        [kind |-> some[i].kind, obj |-> some[i].obj]],
         senderReports |-> SeqSum([i \in DOMAIN all |-> all[i].rtcp.senderReports]),
         receiverReports |->
            SeqSum([i \in DOMAIN all |-> all[i].rtcp.receiverReports]),
         size |-> SeqSum([i \in DOMAIN all |-> all[i].rtcp.size])]

\* The compounds a tick is to emit, in order, were none of them too big:
\* one per consumer with a sender report, holding what was accumulated since
\* the one before, and then the one with the rest and the producers'
\* reports, if it has a receiver report.
Expected(report, cmap, pmap) ==
    LET f == FlushPositions(report)
        flushed == [n \in DOMAIN f |->
                        Accumulated(report, cmap, pmap,
                                    IF n = 1 THEN 1 ELSE f[n - 1] + 1, f[n], 0)]
        final == Accumulated(report, cmap, pmap,
                             IF f = <<>> THEN 1 ELSE f[Len(f)] + 1,
                             Len(report.corder), Len(report.porder))
    IN  IF final.receiverReports > 0 THEN Append(flushed, final) ELSE flushed

\* The maps a tick found (a tick leaves them as they are).
TickExpected == Expected(turn.report, mapConsumers, mapProducers)

\* C16: every compound a tick hands to the send hook has a size of at most
\* BufferSize and is whole; a compound that is bigger is not sent, neither
\* is anything after it in the tick, and the compounds sent before it in
\* the tick are as they would be without it.
C16_CompoundsRespectBufferSize ==
    turn.op = "OnTimer" =>
        LET expected == TickExpected
            big == {n \in DOMAIN expected : expected[n].size > BufferSize}
        IN  /\ \A n \in DOMAIN turn.sent : turn.sent[n].size <= BufferSize
            /\ turn.sent = SubSeq(expected, 1, Len(turn.sent))
            /\ IF big = {} THEN Len(turn.sent) = Len(expected) /\ ~turn.aborted
               ELSE /\ turn.aborted
                    /\ \A n \in big : Len(turn.sent) < n
                    /\ Len(turn.sent) + 1 \in big

\* C16's case: a tick sent the compound of the first consumer and gave up
\* on the second one, which was too big.
C16_Witness ==
    /\ turn.op = "OnTimer"
    /\ turn.aborted
    /\ Len(turn.sent) = 1
    /\ Len(TickExpected) = 3
    /\ TickExpected[2].size > BufferSize
    /\ TickExpected[3].size <= BufferSize

\* The entities of kind `kind` listed in the compounds `sent`, in the order
\* of the compounds and, within a compound, of its items.
RECURSIVE Listed(_, _)
Listed(sent, kind) ==
    IF sent = <<>> THEN <<>>
    ELSE SelectSeq(Head(sent).items, LAMBDA x : x.kind = kind)
            \o Listed(Tail(sent), kind)

\* The position at which the loop over the map visits the entity `obj`.
VisitPosition(order, map, obj) == CHOOSE i \in DOMAIN order : map[order[i]] = obj

\* The entities listed in `items` come in the order of their visits.
InVisitOrder(items, order, map) ==
    \A n, m \in DOMAIN items :
        n < m => VisitPosition(order, map, items[n].obj)
                    < VisitPosition(order, map, items[m].obj)

\* The report of the consumer object `obj` at the tick.
ConsumerRtcpOf(report, map, obj) ==
    report.consumers[report.corder[VisitPosition(report.corder, map, obj)]]

\* C17: the compounds of a tick are emitted in accumulation order.  A
\* compound flushed in the loop over the consumers has a sender report,
\* that of the consumer visited last, and holds what the consumers without
\* a sender report visited before it had accumulated; every such compound
\* comes before the compound with the producers' receiver reports, which is
\* the last one and is emitted only if it has a receiver report.
C17_OutboundOrdering ==
    turn.op = "OnTimer" =>
        LET sent == turn.sent
            report == turn.report
            flushes == {i \in DOMAIN report.corder :
                          report.consumers[report.corder[i]].senderReports > 0}
        IN  /\ InVisitOrder(Listed(sent, "consumer"), report.corder, mapConsumers)
            /\ InVisitOrder(Listed(sent, "producer"), report.porder, mapProducers)
            /\ \A n \in DOMAIN sent :
                  LET c == sent[n]
                      last == c.items[Len(c.items)]
                  IN  /\ n < Len(sent) => c.senderReports > 0
                      /\ c.senderReports > 0 =>
                            /\ c.receiverReports = 0
                            /\ \A i \in DOMAIN c.items : c.items[i].kind = "consumer"
                            /\ \A i \in DOMAIN c.items :
                                  ConsumerRtcpOf(report, mapConsumers,
                                                 c.items[i].obj).senderReports > 0
                                      <=> i = Len(c.items)
                      /\ c.senderReports = 0 =>
                            /\ n = Len(sent)
                            /\ c.receiverReports > 0
                            /\ \A i, j \in DOMAIN c.items :
                                  (c.items[i].kind = "producer"
                                      /\ c.items[j].kind = "consumer") => j < i
            /\ ~turn.aborted =>
                  /\ \A i \in DOMAIN report.corder :
                        (report.consumers[report.corder[i]] # NoRtcp
                            /\ \E f \in flushes : i <= f)
                        => \E n \in DOMAIN Listed(sent, "consumer") :
                              Listed(sent, "consumer")[n].obj
                                  = mapConsumers[report.corder[i]]
                  /\ Cardinality({n \in DOMAIN sent : sent[n].senderReports > 0})
                        = Cardinality(flushes)
                  /\ (\E id \in DOMAIN report.producers :
                          report.producers[id].receiverReports > 0)
                     <=> (sent # <<>> /\ sent[Len(sent)].receiverReports > 0)

\* C17's case: the first consumer had no sender report and the second one
\* had: both are in the first compound, which was sent before the compound
\* of the producer's receiver report.
C17_Witness ==
    /\ turn.op = "OnTimer"
    /\ Len(turn.sent) = 2
    /\ Len(turn.sent[1].items) = 2
    /\ turn.sent[1].senderReports = 1
    /\ turn.sent[2].receiverReports = 1
    /\ turn.sent[2].items[1].kind = "producer"

\* The entities a tick's compounds list put something in at that very tick.
BuiltFromThisTick ==
    /\ \A n \in DOMAIN Listed(turn.sent, "consumer") :
          ConsumerRtcpOf(turn.report, mapConsumers,
                         Listed(turn.sent, "consumer")[n].obj) # NoRtcp
    /\ \A n \in DOMAIN turn.sent :
          turn.sent[n].size
              <= SeqSum([i \in DOMAIN turn.report.corder |->
                            turn.report.consumers[turn.report.corder[i]].size])
                 + SeqSum([i \in DOMAIN turn.report.porder |->
                            turn.report.producers[turn.report.porder[i]].size])

\* A callback of the RTCP timer on a live transport ended with exactly one
\* Start(), the last call of the turn, and left the timer armed.
RearmedOnce ==
    /\ Count(turn.events, "Start", "timer", 0) = 1
    /\ turn.events[Len(turn.events)] = Start
    /\ rtcpTimer.active

\* C18: the RTCP timer never stalls while the transport is alive.  Every
\* callback of the timer before Close() rearms the timer exactly once, also
\* when SendRtcp gave up on a compound that was too big and when the maps
\* are empty, and its compounds hold only what was reported at that tick;
\* and with a timer that fires when armed, the callbacks go on for ever
\* unless the transport is closed.
C18_TimerNeverStalls ==
    /\ []((turn.op = "OnTimer" /\ phase = "alive")
            => (RearmedOnce /\ BuiltFromThisTick))
    /\ ([]<><<TimerFires>>_vars
           \/ <>[](phase # "alive" \/ ~rtcpTimer.active))

\* C18's case: a tick of a live transport gave up on a compound that was
\* too big after it had sent one, and the timer is armed again.
C18_Witness ==
    /\ turn.op = "OnTimer"
    /\ phase = "alive"
    /\ turn.aborted
    /\ Len(turn.sent) = 1
    /\ rtcpTimer.active

\* C18's second case: a tick of a live transport with empty maps.
C18_WitnessEmpty ==
    /\ turn.op = "OnTimer"
    /\ phase = "alive"
    /\ mapConsumers = EmptyMap
    /\ mapProducers = EmptyMap
    /\ rtcpTimer.active

====
